---- MODULE Spec2Model ----
(***************************************************************************)
(* Streaming transcoder of the OpenAI-compatible gateway: the two          *)
(* TransformStream factories createChatStreamTransformer and               *)
(* createCompletionStreamTransformer (utils/stream.js).                     *)
(*                                                                         *)
(* Text is a sequence of one-character strings.  Input chunks are          *)
(* sequences of bytes: an ASCII byte is written as its character, a        *)
(* non-ASCII byte as "xHH".  Decoded characters outside ASCII are written  *)
(* "U+HHHH".  An output frame is the record of the JSON object the code    *)
(* serialises; the sentinel frame is the record of its literal text.       *)
(***************************************************************************)
EXTENDS Integers, Sequences, FiniteSets, TLC

VARIABLES
    mode,          \* "chat" | "completion": which factory built the stream
    input,         \* the upstream byte sequence of this session
    pos,           \* number of bytes of input already delivered in chunks
    buffer,        \* let buffer = ''
    pastThinkTag,  \* let pastThinkTag = false
    isFinished,    \* let isFinished = false (chat only)
    out,           \* frames enqueued on the controller, in order
    flushes,       \* number of times flush() has been invoked
    lines,         \* history: every line the while loop has extracted, in order
    decoded,       \* history: all text decoder.decode has returned, concatenated
    cutInChar,     \* history: some chunk boundary fell inside a multi-byte character
    startInMarker, \* history: the latest chunk began inside the first closing marker
    request,       \* the HTTP request handed to completionHandler
    handler,       \* completionHandler: where it stands and what it has done
    env,           \* the bindings of the worker: env.ACCESS_TOKEN
    router         \* router.fetch: where the chain stands and what it has done

vars == <<mode, input, pos, buffer, pastThinkTag, isFinished, out, flushes,
          lines, decoded, cutInChar, startInMarker, request, handler, env, router>>

----------------------------------------------------------------------------
(* Bounds of the model                                                     *)

MaxSegs == 3     \* segments an upstream input is made of
MaxChunk == 2    \* bytes in a chunk that is not the whole remainder
MaxFlush == 2    \* invocations of flush in one session

----------------------------------------------------------------------------
(* Literals of the source                                                  *)

thinkTagEnd == <<"<", "/", "t", "h", "i", "n", "k", ">">>
dataPrefix == <<"d", "a", "t", "a", ":", " ">>
doneLiteral == <<"[", "D", "O", "N", "E", "]">>
newline == "\n"

uuid == "uuid"
created == 1700000000
model == "model"

----------------------------------------------------------------------------
(* JavaScript string primitives                                            *)

Min(S) == CHOOSE x \in S : \A y \in S : x <= y

\* String.prototype.indexOf: 0-based index of the first occurrence, or -1
IndexOf(s, pat) ==
    LET hits == {i \in 0..(Len(s) - Len(pat)) : SubSeq(s, i + 1, i + Len(pat)) = pat}
    IN  IF hits = {} THEN -1 ELSE Min(hits)

\* String.prototype.substring(from) / slice(from)
Substring(s, from) == SubSeq(s, from + 1, Len(s))

\* String.prototype.slice(from, to)
Slice(s, from, to) == SubSeq(s, from + 1, to)

\* String.prototype.startsWith
StartsWith(s, pat) == Len(s) >= Len(pat) /\ SubSeq(s, 1, Len(pat)) = pat

\* White space and line terminators removed by String.prototype.trim
TrimChars == {" ", "\t", "\n", "\r", "U+FEFF"}

\* String.prototype.trim
Trim(s) ==
    LET keep == {i \in 1..Len(s) : s[i] \notin TrimChars}
    IN  IF keep = {} THEN <<>>
        ELSE SubSeq(s, Min(keep), CHOOSE i \in keep : \A j \in keep : j <= i)

----------------------------------------------------------------------------
(* TextDecoder: new TextDecoder() is UTF-8, fatal = false, ignoreBOM =      *)
(* false.  decode(chunk) is called without { stream: true }, so every call  *)
(* starts a fresh decoder: bytes of an unfinished sequence at the end of    *)
(* the chunk become one U+FFFD, a continuation byte with no lead byte       *)
(* becomes U+FFFD, and a byte order mark that opens the chunk is dropped.   *)

Lead2 == {"xC3"}
Lead3 == {"xEF"}
Cont == {"xA9", "xBB", "xBF"}
NonAscii == Lead2 \cup Lead3 \cup Cont

\* Number of continuation bytes a lead byte asks for
Need(b) == IF b \in Lead2 THEN 1 ELSE 2

\* The characters the byte alphabet can spell
CodePoint(bs) ==
    IF bs = <<"xC3", "xA9">> THEN "U+00E9"
    ELSE IF bs = <<"xEF", "xBB", "xBF">> THEN "U+FEFF"
    ELSE "U+FFFD"

\* Number of continuation bytes that follow position i, counted up to n
ContRun(bs, i, n) ==
    LET ok == {k \in 0..n : \A j \in 1..k : i + j <= Len(bs) /\ bs[i + j] \in Cont}
    IN  CHOOSE k \in ok : \A m \in ok : m <= k

RECURSIVE Utf8Decode(_, _)
Utf8Decode(bs, i) ==
    IF i > Len(bs) THEN <<>>
    ELSE IF bs[i] \notin NonAscii THEN <<bs[i]>> \o Utf8Decode(bs, i + 1)
    ELSE IF bs[i] \in Cont THEN <<"U+FFFD">> \o Utf8Decode(bs, i + 1)
    ELSE LET n == Need(bs[i])
             k == ContRun(bs, i, n)
         IN  IF k = n
             THEN <<CodePoint(SubSeq(bs, i, i + n))>> \o Utf8Decode(bs, i + n + 1)
             ELSE <<"U+FFFD">> \o Utf8Decode(bs, i + k + 1)

\* decoder.decode(chunk)
Decode(chunk) ==
    LET text == IF \A i \in 1..Len(chunk) : chunk[i] \notin NonAscii
                THEN chunk ELSE Utf8Decode(chunk, 1)
    IN  IF text # <<>> /\ Head(text) = "U+FEFF" THEN Tail(text) ELSE text

----------------------------------------------------------------------------
(* JSON.parse on the bodies the upstream sends: an object whose response    *)
(* member is a string of unescaped characters, or the empty object.  Any    *)
(* other text of the model's inputs is not JSON and makes JSON.parse throw. *)

JsonSpace == {" ", "\t", "\n", "\r"}

JsonTrim(s) ==
    LET keep == {i \in 1..Len(s) : s[i] \notin JsonSpace}
    IN  IF keep = {} THEN <<>>
        ELSE SubSeq(s, Min(keep), CHOOSE i \in keep : \A j \in keep : j <= i)

responseOpen == <<"{", "\"", "r", "e", "s", "p", "o", "n", "s", "e", "\"", ":", "\"">>
responseClose == <<"\"", "}">>

\* Characters that may not stand unescaped inside a JSON string
StringBreak == {"\"", "\\", "\n", "\r", "\t"}

\* The JSON string that starts at t[i]: its text and the index after its
\* closing quote
ParseString(t, i) ==
    LET closing == {j \in (i + 1)..Len(t) : t[j] = "\""}
        j == Min(closing)
    IN  IF i > Len(t) \/ t[i] # "\"" \/ closing = {}
        THEN [ok |-> FALSE, val |-> <<>>, next |-> i]
        ELSE [ok |-> \A k \in (i + 1)..(j - 1) : t[k] \notin StringBreak,
              val |-> SubSeq(t, i + 1, j - 1), next |-> j + 1]

\* An object is the sequence of its members in insertion order; a repeated
\* key keeps its place and takes the later value
Put(members, key, val) ==
    IF \E k \in DOMAIN members : members[k].key = key
    THEN [k \in DOMAIN members |->
             IF members[k].key = key THEN [key |-> key, val |-> val] ELSE members[k]]
    ELSE Append(members, [key |-> key, val |-> val])

\* The members "key":"string" separated by commas that start at t[i], up to
\* the end of t
RECURSIVE ParseMembers(_, _, _)
ParseMembers(t, i, members) ==
    LET key == ParseString(t, i)
        val == ParseString(t, key.next + 1)
        more == Put(members, key.val, val.val)
    IN  IF ~key.ok \/ key.next > Len(t) \/ t[key.next] # ":" \/ ~val.ok
        THEN [ok |-> FALSE, members |-> <<>>]
        ELSE IF val.next > Len(t) THEN [ok |-> TRUE, members |-> more]
        ELSE IF t[val.next] = "," THEN ParseMembers(t, val.next + 1, more)
        ELSE [ok |-> FALSE, members |-> <<>>]

objectOpen == <<"{", "\"", "r", "e", "s", "p", "o", "n", "s", "e", "\"", ":", "{">>
objectClose == <<"}", "}">>

nullLiteral == <<"n", "u", "l", "l">>
zeroLiteral == <<"0">>
responseKey == <<"{", "\"", "r", "e", "s", "p", "o", "n", "s", "e", "\"", ":">>

\* JSON.parse on the bodies the upstream sends: null, {}, and {"response":v}
\* with v a string, null, 0 or an object whose members have string values;
\* any other text throws.  body tells a parsed object from a parsed null.
JSONParse(content) ==
    LET t == JsonTrim(content)
        n == Len(t)
        a == Len(responseOpen)
        z == Len(responseClose)
        failed == [ok |-> FALSE, body |-> "none", hasResponse |-> FALSE,
                   type |-> "undefined", response |-> <<>>]
    IN  IF t = nullLiteral
        THEN [ok |-> TRUE, body |-> "null", hasResponse |-> FALSE,
              type |-> "undefined", response |-> <<>>]
        ELSE IF t = <<"{", "}">>
        THEN [ok |-> TRUE, body |-> "object", hasResponse |-> FALSE,
              type |-> "undefined", response |-> <<>>]
        ELSE IF t = responseKey \o nullLiteral \o <<"}">>
        THEN [ok |-> TRUE, body |-> "object", hasResponse |-> TRUE,
              type |-> "null", response |-> "null"]
        ELSE IF t = responseKey \o zeroLiteral \o <<"}">>
        THEN [ok |-> TRUE, body |-> "object", hasResponse |-> TRUE,
              type |-> "number", response |-> 0]
        ELSE IF /\ n >= a + z
                /\ SubSeq(t, 1, a) = responseOpen
                /\ SubSeq(t, n - z + 1, n) = responseClose
                /\ \A i \in (a + 1)..(n - z) : t[i] \notin StringBreak
        THEN [ok |-> TRUE, body |-> "object", hasResponse |-> TRUE, type |-> "string",
              response |-> SubSeq(t, a + 1, n - z)]
        ELSE IF /\ n >= Len(objectOpen) + Len(objectClose)
                /\ SubSeq(t, 1, Len(objectOpen)) = objectOpen
                /\ SubSeq(t, n - Len(objectClose) + 1, n) = objectClose
        THEN LET inner == SubSeq(t, Len(objectOpen) + 1, n - Len(objectClose))
                 parsed == IF inner = <<>> THEN [ok |-> TRUE, members |-> <<>>]
                           ELSE ParseMembers(inner, 1, <<>>)
             IN  IF parsed.ok
                 THEN [ok |-> TRUE, body |-> "object", hasResponse |-> TRUE,
                       type |-> "object", response |-> [members |-> parsed.members]]
                 ELSE failed
        ELSE failed

\* The try block throws on this body: JSON.parse throws, or the body is null
\* and reading data.response throws a TypeError
Throws(data) == ~data.ok \/ data.body = "null"

\* object.key: the value of the member, <<>> standing also for undefined
Get(object, key) ==
    IF \E k \in DOMAIN object.members : object.members[k].key = key
    THEN (CHOOSE m \in {object.members[k] : k \in DOMAIN object.members} : m.key = key).val
    ELSE <<>>

\* JSON.stringify of an object whose members have string values
RECURSIVE StringifyMembers(_)
StringifyMembers(members) ==
    IF members = <<>> THEN <<>>
    ELSE <<"\"">> \o Head(members).key \o <<"\"", ":", "\"">> \o Head(members).val \o <<"\"">>
            \o (IF Len(members) > 1 THEN <<",">> ELSE <<>>)
            \o StringifyMembers(Tail(members))

JSONStringify(object) == <<"{">> \o StringifyMembers(object.members) \o <<"}">>

----------------------------------------------------------------------------
(* Frames: the objects handed to JSON.stringify, and the sentinel literal.  *)
(* JSON null is written "null".                                            *)

emptyObject == [k \in {} |-> ""]

\* Variant of finalChunk stamped with a later time than the session's
finalChunk_FreshTimestamp ==
    [id |-> uuid, created |-> created + 1, object |-> "chat.completion.chunk", model |-> model,
     choices |-> <<[delta |-> emptyObject, index |-> 0, finish_reason |-> "stop"]>>]

\* 'data: ' + JSON.stringify({... choices: [{ delta: {}, index: 0, finish_reason: 'stop' }]})
finalChunk ==
    [id |-> uuid, created |-> created, object |-> "chat.completion.chunk", model |-> model,
     choices |-> <<[delta |-> emptyObject, index |-> 0, finish_reason |-> "stop"]>>]

\* 'data: [DONE]\n\n'
doneFrame == [raw |-> <<"d", "a", "t", "a", ":", " ", "[", "D", "O", "N", "E", "]", "\n", "\n">>]

\* The chat chunk that carries one fragment
ChatChunk(actualContent) ==
    [id |-> uuid, created |-> created, object |-> "chat.completion.chunk", model |-> model,
     choices |-> <<[delta |-> [role |-> "assistant", content |-> actualContent],
                    index |-> 0, finish_reason |-> "null"]>>]

\* Variant of CompletionChunk that makes a string of a response that is not
\* one
CompletionChunk_Stringified(data) ==
    [id |-> uuid, created |-> created, object |-> "text_completion", model |-> model,
     choices |-> <<IF data.hasResponse
                   THEN [text |-> [t |-> "string",
                                   v |-> IF data.type = "string" THEN data.response
                                         ELSE IF data.type = "null" THEN nullLiteral
                                         ELSE IF data.type = "number" THEN zeroLiteral
                                         ELSE JSONStringify(data.response)],
                         index |-> 0, logprobs |-> "null", finish_reason |-> "null"]
                   ELSE [index |-> 0, logprobs |-> "null", finish_reason |-> "null"]>>]

\* The completion chunk; JSON.stringify leaves out a text that is undefined.
\* The text is data.response as it is: its type and its value.
CompletionChunk(data) ==
    [id |-> uuid, created |-> created, object |-> "text_completion", model |-> model,
     choices |-> <<IF data.hasResponse
                   THEN [text |-> [t |-> data.type, v |-> data.response], index |-> 0,
                         logprobs |-> "null", finish_reason |-> "null"]
                   ELSE [index |-> 0, logprobs |-> "null", finish_reason |-> "null"]>>]

IsFragmentFrame(f) ==
    /\ "choices" \in DOMAIN f
    /\ f.choices[1].finish_reason = "null"

IsFinalChunk(f) ==
    /\ "choices" \in DOMAIN f
    /\ f.choices[1].finish_reason = "stop"

IsDoneFrame(f) == "raw" \in DOMAIN f

----------------------------------------------------------------------------
(* A session is the closure state of one transformer plus what it has       *)
(* enqueued: [buffer, pastThinkTag, isFinished, out, lines].                *)

InitSession ==
    [buffer |-> <<>>, pastThinkTag |-> FALSE, isFinished |-> FALSE,
     out |-> <<>>, lines |-> <<>>]

\* Variant of Truthy that accepts every response member that is present
Truthy_AnyResponse(data) == data.hasResponse

\* if (data.response): a string is truthy when it is not empty, an object
\* always
Truthy(data) ==
    IF ~data.hasResponse THEN FALSE
    ELSE IF data.type = "string" THEN data.response # <<>>
    ELSE IF data.type = "number" THEN data.response # 0
    ELSE data.type = "object"

\* Variant of ActualContent that prefers the content member to the text member
ActualContent_ContentFirst(data) ==
    IF data.type = "string" THEN data.response
    ELSE IF data.type = "null" THEN nullLiteral
    ELSE IF data.type = "number" THEN zeroLiteral
    ELSE IF Get(data.response, "content") # <<>> THEN Get(data.response, "content")
    ELSE IF Get(data.response, "text") # <<>> THEN Get(data.response, "text")
    ELSE JSONStringify(data.response)

\* typeof data.response === 'string' ? data.response
\*   : data.response?.text || data.response?.content || JSON.stringify(data.response)
\* null and 0 have no members and are stringified
ActualContent(data) ==
    IF data.type = "string" THEN data.response
    ELSE IF data.type = "null" THEN nullLiteral
    ELSE IF data.type = "number" THEN zeroLiteral
    ELSE IF Get(data.response, "text") # <<>> THEN Get(data.response, "text")
    ELSE IF Get(data.response, "content") # <<>> THEN Get(data.response, "content")
    ELSE JSONStringify(data.response)

\* Variant of ChatLine without the catch: a throw of JSON.parse errors the
\* stream, which takes no further chunk
ChatLine_NoCatch(s, line) ==
    IF ~StartsWith(line, dataPrefix) THEN s
    ELSE LET content == Substring(line, Len(dataPrefix))
         IN  IF Trim(content) = doneLiteral
             THEN [s EXCEPT !.out = s.out \o <<finalChunk, doneFrame>>,
                            !.isFinished = TRUE]
             ELSE LET data == JSONParse(content)
                  IN  IF Throws(data) THEN [s EXCEPT !.isFinished = TRUE]
                      ELSE IF Truthy(data)
                      THEN [s EXCEPT !.out = Append(s.out, ChatChunk(ActualContent(data)))]
                      ELSE s

\* Variant of ChatLine that sends the text accumulated so far instead of the
\* fragment of its own line
ChatLine_Accumulates(s, line) ==
    IF ~StartsWith(line, dataPrefix) THEN s
    ELSE LET content == Substring(line, Len(dataPrefix))
         IN  IF Trim(content) = doneLiteral
             THEN [s EXCEPT !.out = s.out \o <<finalChunk, doneFrame>>,
                            !.isFinished = TRUE]
             ELSE LET data == JSONParse(content)
                      sent == IF s.out = <<>> THEN <<>>
                              ELSE s.out[Len(s.out)].choices[1].delta.content
                  IN  IF ~Throws(data) /\ Truthy(data)
                      THEN [s EXCEPT !.out = Append(s.out, ChatChunk(sent \o ActualContent(data)))]
                      ELSE s

\* The try block of the chat loop for one line; a throw of JSON.parse is
\* caught and leaves the session as it was.
ChatLine(s, line) ==
    IF ~StartsWith(line, dataPrefix) THEN s
    ELSE LET content == Substring(line, Len(dataPrefix))
         IN  IF Trim(content) = doneLiteral
             THEN [s EXCEPT !.out = s.out \o <<finalChunk, doneFrame>>,
                            !.isFinished = TRUE]
             ELSE LET data == JSONParse(content)
                  IN  IF ~Throws(data) /\ Truthy(data)
                      THEN [s EXCEPT !.out = Append(s.out, ChatChunk(ActualContent(data)))]
                      ELSE s

\* Variant of ChatLoop that takes one line per call of transform
ChatLoop_OneLine(s) ==
    LET newlineIndex == IndexOf(s.buffer, <<newline>>)
    IN  IF newlineIndex = -1 THEN s
        ELSE LET line == Slice(s.buffer, 0, newlineIndex + 1)
                 s1 == [s EXCEPT !.buffer = Substring(s.buffer, newlineIndex + 1),
                                 !.lines = Append(s.lines, line)]
             IN  ChatLine(s1, line)

\* Variant of ChatLoop with an iteration that leaves its line in the buffer:
\* every line is handled once without being removed, then once more
RECURSIVE ChatLoop_Repeats(_)
ChatLoop_Repeats(s) ==
    LET newlineIndex == IndexOf(s.buffer, <<newline>>)
    IN  IF newlineIndex = -1 THEN s
        ELSE LET line == Slice(s.buffer, 0, newlineIndex + 1)
                 s0 == ChatLine([s EXCEPT !.lines = Append(s.lines, line)], line)
                 s1 == [s0 EXCEPT !.buffer = Substring(s0.buffer, newlineIndex + 1),
                                  !.lines = Append(s0.lines, line)]
                 s2 == ChatLine(s1, line)
             IN  IF s0.isFinished THEN s0
                 ELSE IF s2.isFinished THEN s2 ELSE ChatLoop_Repeats(s2)

\* while (true) { ... } of the chat transformer; the sentinel branch returns
RECURSIVE ChatLoop(_)
ChatLoop(s) ==
    LET newlineIndex == IndexOf(s.buffer, <<newline>>)
    IN  IF newlineIndex = -1 THEN s
        ELSE LET line == Slice(s.buffer, 0, newlineIndex + 1)
                 s1 == [s EXCEPT !.buffer = Substring(s.buffer, newlineIndex + 1),
                                 !.lines = Append(s.lines, line)]
                 s2 == ChatLine(s1, line)
             IN  IF s2.isFinished THEN s2 ELSE ChatLoop(s2)

\* Variant of ThinkStep that keeps the text before the marker in the buffer
ThinkStep_KeepsPreamble(s, text) ==
    LET b == s.buffer \o text
    IN  IF s.pastThinkTag \/ IndexOf(b, thinkTagEnd) # -1
        THEN [s |-> [s EXCEPT !.buffer = b, !.pastThinkTag = TRUE], go |-> TRUE]
        ELSE [s |-> [s EXCEPT !.buffer = b], go |-> FALSE]

\* Variant of ThinkStep that looks for the marker in the new text only, not in
\* the accumulated buffer
ThinkStep_ScansChunkOnly(s, text) ==
    LET b == s.buffer \o text
        thinkIndex == IndexOf(text, thinkTagEnd)
    IN  IF s.pastThinkTag THEN [s |-> [s EXCEPT !.buffer = b], go |-> TRUE]
        ELSE IF thinkIndex # -1
        THEN [s |-> [s EXCEPT !.buffer = Substring(text, thinkIndex + Len(thinkTagEnd)),
                              !.pastThinkTag = TRUE],
              go |-> TRUE]
        ELSE [s |-> [s EXCEPT !.buffer = b], go |-> FALSE]

\* Variant of ThinkStep that goes on to the loop while the preamble is open
ThinkStep_NoGate(s, text) ==
    LET b == s.buffer \o text
        thinkIndex == IndexOf(b, thinkTagEnd)
    IN  IF s.pastThinkTag THEN [s |-> [s EXCEPT !.buffer = b], go |-> TRUE]
        ELSE IF thinkIndex # -1
        THEN [s |-> [s EXCEPT !.buffer = Substring(b, thinkIndex + Len(thinkTagEnd)),
                              !.pastThinkTag = TRUE],
              go |-> TRUE]
        ELSE [s |-> [s EXCEPT !.buffer = b], go |-> TRUE]

\* Variant of ThinkStep that looks for the marker on every call, also after
\* the preamble is closed
ThinkStep_Rescans(s, text) ==
    LET b == s.buffer \o text
        thinkIndex == IndexOf(b, thinkTagEnd)
    IN  IF thinkIndex # -1
        THEN [s |-> [s EXCEPT !.buffer = Substring(b, thinkIndex + Len(thinkTagEnd)),
                              !.pastThinkTag = TRUE],
              go |-> TRUE]
        ELSE [s |-> [s EXCEPT !.buffer = b], go |-> s.pastThinkTag]

\* The think-tag step shared by both transformers: the session after it, and
\* whether transform goes on to the loop
ThinkStep(s, text) ==
    LET b == s.buffer \o text
        thinkIndex == IndexOf(b, thinkTagEnd)
    IN  IF s.pastThinkTag THEN [s |-> [s EXCEPT !.buffer = b], go |-> TRUE]
        ELSE IF thinkIndex # -1
        THEN [s |-> [s EXCEPT !.buffer = Substring(b, thinkIndex + Len(thinkTagEnd)),
                              !.pastThinkTag = TRUE],
              go |-> TRUE]
        ELSE [s |-> [s EXCEPT !.buffer = b], go |-> FALSE]

\* Variant of ChatTransform without the isFinished test at its head
ChatTransform_NoGuard(s, chunk) ==
    LET t == ThinkStep(s, Decode(chunk))
    IN  IF t.go THEN ChatLoop(t.s) ELSE t.s

\* createChatStreamTransformer: transform(chunk, controller)
ChatTransform(s, chunk) ==
    IF s.isFinished THEN s
    ELSE LET t == ThinkStep(s, Decode(chunk))
         IN  IF t.go THEN ChatLoop(t.s) ELSE t.s

\* Variant of ChatFlush that does not test isFinished
ChatFlush_Unguarded(s) ==
    [s EXCEPT !.out = s.out \o <<finalChunk, doneFrame>>]

\* createChatStreamTransformer: flush(controller)
ChatFlush(s) ==
    IF ~s.isFinished
    THEN [s EXCEPT !.out = s.out \o <<finalChunk, doneFrame>>]
    ELSE s

\* The try block of the completion loop for one line: the session after it,
\* and whether the sentinel branch returned from transform
CompletionLine(s, line) ==
    IF ~StartsWith(line, dataPrefix) THEN [s |-> s, ret |-> FALSE]
    ELSE LET content == Substring(line, Len(dataPrefix))
         IN  IF Trim(content) = doneLiteral
             THEN [s |-> [s EXCEPT !.out = Append(s.out, doneFrame)], ret |-> TRUE]
             ELSE LET data == JSONParse(content)
                  IN  IF ~Throws(data)
                      THEN [s |-> [s EXCEPT !.out = Append(s.out, CompletionChunk(data))],
                            ret |-> FALSE]
                      ELSE [s |-> s, ret |-> FALSE]

\* while (true) { ... } of the completion transformer
RECURSIVE CompletionLoop(_)
CompletionLoop(s) ==
    LET newlineIndex == IndexOf(s.buffer, <<newline>>)
    IN  IF newlineIndex = -1 THEN s
        ELSE LET line == Slice(s.buffer, 0, newlineIndex + 1)
                 s1 == [s EXCEPT !.buffer = Substring(s.buffer, newlineIndex + 1),
                                 !.lines = Append(s.lines, line)]
                 r == CompletionLine(s1, line)
             IN  IF r.ret THEN r.s ELSE CompletionLoop(r.s)

\* createCompletionStreamTransformer: transform(chunk, controller)
CompletionTransform(s, chunk) ==
    LET t == ThinkStep(s, Decode(chunk))
    IN  IF t.go THEN CompletionLoop(t.s) ELSE t.s

\* Variant of CompletionFlush that ends the stream with the sentinel frame
CompletionFlush_EmitsDone(s) == [s EXCEPT !.out = Append(s.out, doneFrame)]

\* createCompletionStreamTransformer defines no flush
CompletionFlush(s) == s

----------------------------------------------------------------------------
(* Upstream inputs: every concatenation of at most MaxSegs segments.  The   *)
(* segments are the closing marker and event lines: a fragment, a fragment  *)
(* made of the two-byte character U+00E9, the sentinel, a body that is not  *)
(* JSON, a line without the event prefix.                                   *)

segMarker == thinkTagEnd
segHi == dataPrefix \o responseOpen \o <<"H", "i">> \o responseClose \o <<newline>>
segAccent == dataPrefix \o responseOpen \o <<"xC3", "xA9">> \o responseClose \o <<newline>>
segDone == dataPrefix \o doneLiteral \o <<newline>>
segBadJson == dataPrefix \o <<"{", newline>>
segNoPrefix == <<"x", newline>>

Segments == {segMarker, segHi, segAccent, segDone, segBadJson, segNoPrefix}

RECURSIVE Concat(_)
Concat(ss) == IF ss = <<>> THEN <<>> ELSE Head(ss) \o Concat(Tail(ss))

\* Every concatenation of at most MaxSegs of the segments in S
Texts(S) == {Concat(ss) : ss \in UNION {[1..n -> S] : n \in 0..MaxSegs}}

Inputs == Texts(Segments)

\* Inputs that hold the character U+FEFF: a fragment line made of it, with the
\* marker and an ordinary fragment line
segBom == dataPrefix \o responseOpen \o <<"xEF", "xBB", "xBF">> \o responseClose \o <<newline>>

WideSegments == {segMarker, segHi, segBom}

WideInputs == Texts(WideSegments)

\* Inputs whose response is an object: with a text and a content member, with
\* an empty text and a content, with neither text nor a content that is not
\* empty; with the marker and a string fragment line
textAndContent ==
    <<"\"", "t", "e", "x", "t", "\"", ":", "\"", "T", "\"", ",",
      "\"", "c", "o", "n", "t", "e", "n", "t", "\"", ":", "\"", "C", "\"">>
emptyTextAndContent ==
    <<"\"", "t", "e", "x", "t", "\"", ":", "\"", "\"", ",",
      "\"", "c", "o", "n", "t", "e", "n", "t", "\"", ":", "\"", "C", "\"">>
emptyContentAndId ==
    <<"\"", "c", "o", "n", "t", "e", "n", "t", "\"", ":", "\"", "\"", ",",
      "\"", "i", "d", "\"", ":", "\"", "7", "\"">>

ObjectLine(inner) == dataPrefix \o objectOpen \o inner \o objectClose \o <<newline>>

segText == ObjectLine(textAndContent)
segContent == ObjectLine(emptyTextAndContent)
segNeither == ObjectLine(emptyContentAndId)

ObjectSegments == {segMarker, segHi, segText, segContent, segNeither}

ObjectInputs == Texts(ObjectSegments)

\* Inputs that open with the marker and go on with event lines whose body
\* parses but carries no text: an empty string, no response member, 0, and
\* the body null; with an ordinary fragment line.  segNull has the response
\* null.
segEmpty == dataPrefix \o responseOpen \o responseClose \o <<newline>>
segAbsent == dataPrefix \o <<"{", "}", newline>>
segNull == dataPrefix \o responseKey \o nullLiteral \o <<"}", newline>>
segZero == dataPrefix \o responseKey \o zeroLiteral \o <<"}", newline>>
segNullBody == dataPrefix \o nullLiteral \o <<newline>>

FalsyLines == {segHi, segEmpty, segAbsent, segZero, segNullBody}

FalsyInputs == {segMarker \o text : text \in Texts(FalsyLines)}

\* Inputs that open with the marker and go on with event lines whose response
\* is a string, an empty string, null, 0 or an object
VerbatimLines == {segHi, segEmpty, segNull, segZero, segText}

VerbatimInputs == {segMarker \o text : text \in Texts(VerbatimLines)}

\* Position p of bs lies between the bytes of one character
InsideChar(bs, p) == p > 0 /\ p < Len(bs) /\ bs[p + 1] \in Cont

\* Position p of bs lies strictly inside the first closing marker
InsideMarker(bs, p) ==
    LET thinkIndex == IndexOf(bs, thinkTagEnd)
    IN  thinkIndex # -1 /\ thinkIndex < p /\ p < thinkIndex + Len(thinkTagEnd)

----------------------------------------------------------------------------
(* The completion handler (routes/completion.js).  A JavaScript value is a  *)
(* record tagged with its type; the text of a string is a sequence of       *)
(* characters.                                                             *)

undefined == [t |-> "undefined"]
jsNull == [t |-> "null"]
Str(s) == [t |-> "string", v |-> s]
Num(n) == [t |-> "number", v |-> n]
Bool(b) == [t |-> "boolean", v |-> b]

\* !v
Falsy(v) ==
    \/ v.t \in {"undefined", "null"}
    \/ v.t = "string" /\ v.v = <<>>
    \/ v.t = "number" /\ v.v = 0
    \/ v.t = "boolean" /\ ~v.v

appJson == <<"a", "p", "p", "l", "i", "c", "a", "t", "i", "o", "n", "/", "j", "s", "o", "n">>
textPlain == <<"t", "e", "x", "t", "/", "p", "l", "a", "i", "n">>
charsetParam == <<";", " ", "c", "h", "a", "r", "s", "e", "t", "=", "u", "t", "f", "-", "8">>
seqSuffix == <<"-", "s", "e", "q">>

\* request.headers.get('Content-Type'): null when the header is absent
ContentTypes ==
    {jsNull, Str(textPlain), Str(appJson), Str(appJson \o charsetParam),
     Str(appJson \o seqSuffix)}

PromptValues == {undefined, jsNull, Str(<<>>), Str(<<"h", "i">>), Num(0), Num(5)}

StreamValues == {undefined, Bool(TRUE), Bool(FALSE)}

\* The request body: text that is not JSON, the JSON text null, or a JSON
\* object with or without the members prompt and stream
Bodies ==
    {[valid |-> FALSE], [valid |-> TRUE, json |-> jsNull]}
        \cup {[valid |-> TRUE, json |-> [t |-> "object", prompt |-> p, stream |-> s]] :
                 p \in PromptValues, s \in StreamValues}

Requests == [contentType : ContentTypes, body : Bodies]

\* request.headers.get('Content-Type')?.includes('application/json')
IncludesApplicationJson(contentType) ==
    contentType.t = "string" /\ IndexOf(contentType.v, appJson) # -1

\* json?.prompt and json?.stream
Member(json, name) == IF json.t = "object" THEN json[name] ELSE undefined

\* The three prompt checks; TRUE when one of them throws ValidationError
PromptRejected(json) ==
    LET prompt == Member(json, "prompt")
    IN  \/ Falsy(prompt)
        \/ prompt.t # "string"
        \/ Len(prompt.v) = 0

\* The handler before its first statement
HandlerEntered ==
    [pc |-> "entry", transformer |-> FALSE, aiRun |-> FALSE, raised |-> "none",
     response |-> "none"]

\* The handler after it has returned the piped stream
HandlerStreaming ==
    [pc |-> "done", transformer |-> TRUE, aiRun |-> TRUE, raised |-> "none",
     response |-> "text/event-stream"]

\* A request the handler answers with a stream
streamingRequest ==
    [contentType |-> Str(appJson),
     body |-> [valid |-> TRUE,
               json |-> [t |-> "object", prompt |-> Str(<<"h", "i">>), stream |-> Bool(TRUE)]]]

\* throw: the handler ends without a Response of its own
Throw(h, error) == [h EXCEPT !.pc = "done", !.raised = error]

----------------------------------------------------------------------------
(* The router (index.js): the CORS step, the bearer authentication step    *)
(* and the route handlers behind them.                                     *)

bearer == <<"B", "e", "a", "r", "e", "r">>
token == <<"t", "o", "k">>
otherToken == <<"b", "a", "d">>
space == " "

\* authorizationHeader.split(' ')
RECURSIVE Split(_, _)
Split(s, sep) ==
    LET i == IndexOf(s, <<sep>>)
    IN  IF i = -1 THEN <<s>>
        ELSE <<Slice(s, 0, i)>> \o Split(Substring(s, i + 1), sep)

\* Variant of extractToken that takes the second part whatever the first is
extractToken_AnyScheme(authorizationHeader) ==
    IF Falsy(authorizationHeader) THEN jsNull
    ELSE LET parts == Split(authorizationHeader.v, space)
         IN  IF Len(parts) = 2 THEN Str(parts[2]) ELSE jsNull

extractToken(authorizationHeader) ==
    IF Falsy(authorizationHeader) THEN jsNull
    ELSE LET parts == Split(authorizationHeader.v, space)
         IN  IF Len(parts) = 2 /\ parts[1] = bearer THEN Str(parts[2]) ELSE jsNull

\* request.headers.get('Authorization'): null when the header is absent, the
\* empty string when it is sent without a value
AuthorizationHeaders ==
    {jsNull, Str(<<>>),
     Str(bearer \o <<space>> \o token),
     Str(bearer \o <<space>> \o otherToken),
     Str(token),
     Str(bearer),
     Str(<<"b", "e", "a", "r", "e", "r", space>> \o token),
     Str(bearer \o <<space, space>> \o token),
     Str(bearer \o <<space>> \o token \o <<space>> \o token)}

Methods == {"OPTIONS", "GET", "POST"}

RouterRequests == [method : Methods, authorization : AuthorizationHeaders]

\* env.ACCESS_TOKEN: the configured secret, or undefined when it is not set
Envs == {[ACCESS_TOKEN |-> Str(token)], [ACCESS_TOKEN |-> undefined]}

\* The router before its first step
RouterEntered == [pc |-> "cors", authenticated |-> FALSE, invoked |-> FALSE, response |-> "none"]

\* The router after a route handler was invoked
RouterPassed == [pc |-> "done", authenticated |-> TRUE, invoked |-> TRUE, response |-> "handler"]

\* The step returns a Response, which ends the chain
Respond(r, response) == [r EXCEPT !.pc = "done", !.response = response]

\* handleCORS(request)
handleCORS(r, req) ==
    IF req.method = "OPTIONS" THEN Respond(r, "204")
    ELSE [r EXCEPT !.pc = "auth"]

\* bearerAuthentication(request, env)
bearerAuthentication(r, req, e) ==
    IF Falsy(req.authorization) THEN Respond(r, "AuthenticationError")
    ELSE IF e.ACCESS_TOKEN # extractToken(req.authorization)
    THEN Respond(r, "PermissionError")
    ELSE [r EXCEPT !.pc = "route", !.authenticated = TRUE]

----------------------------------------------------------------------------
(* max_tokens in the two handlers (routes/completion.js, routes/chat.js).  *)
(* A number is Num(n) with n an integer, or NaN.                           *)

NaN == [t |-> "NaN"]

\* ToNumber of the values that reach Math.min, Math.max and Math.floor here
ToNumber(v) == IF v.t = "number" THEN v ELSE NaN

MathMin(a, b) ==
    IF ToNumber(a) = NaN \/ ToNumber(b) = NaN THEN NaN
    ELSE Num(IF a.v <= b.v THEN a.v ELSE b.v)

MathMax(a, b) ==
    IF ToNumber(a) = NaN \/ ToNumber(b) = NaN THEN NaN
    ELSE Num(IF a.v >= b.v THEN a.v ELSE b.v)

\* Math.floor(context_window * 0.7)
FloorSevenTenths(v) ==
    IF ToNumber(v) = NaN THEN NaN ELSE Num((v.v * 7) \div 10)

\* MODEL_CONTEXT_WINDOWS[model]: the window of the resolved model, undefined
\* when the table has no entry for it
ContextWindows == {undefined, Num(8), Num(4096), Num(32768)}

\* json.max_tokens
MaxTokensValues ==
    {undefined, jsNull, Str(<<"5">>), Num(-1), Num(0), Num(1), Num(5), Num(10),
     Num(4096), Num(4097), Num(40000)}

\* The requests of the two handlers as far as max_tokens goes
TokenRequests == [route : {"chat", "completion"}, max_tokens : MaxTokensValues,
                  window : ContextWindows]

\* completionHandler: maxTokens; the default of calculateDefaultMaxTokens is
\* not computed here
CompletionMaxTokens(max_tokens, window) ==
    LET contextWindow == IF Falsy(window) THEN Num(4096) ELSE window
    IN  IF max_tokens.t = "number" /\ max_tokens.v > 0
        THEN MathMax(Num(1), MathMin(max_tokens, contextWindow))
        ELSE [t |-> "calculateDefaultMaxTokens"]

\* chatHandler: max_tokens
ChatMaxTokens(max_tokens, window) ==
    LET context_window == window
        limited == IF max_tokens.t = "number" /\ max_tokens.v > 0
                   THEN MathMin(max_tokens, context_window)
                   ELSE MathMin(FloorSevenTenths(context_window), Num(16384))
    IN  MathMax(Num(10), limited)

\* chatHandler: finalParams.max_tokens, as passed to env.AI.run
FinalMaxTokens(max_tokens, window) ==
    IF max_tokens = undefined \/ max_tokens = jsNull
    THEN FloorSevenTenths(window)
    ELSE max_tokens

----------------------------------------------------------------------------
(* The state machine                                                       *)

Session ==
    [buffer |-> buffer, pastThinkTag |-> pastThinkTag, isFinished |-> isFinished,
     out |-> out, lines |-> lines]

Modes == {"chat", "completion"}

\* The state after the factory returns, for an upstream input drawn from I;
\* the handler has returned the piped stream
Start(I) ==
    /\ env = [ACCESS_TOKEN |-> Str(token)]
    /\ router = RouterPassed
    /\ request = streamingRequest
    /\ handler = HandlerStreaming
    /\ mode \in Modes
    /\ input \in I
    /\ pos = 0
    /\ buffer = InitSession.buffer
    /\ pastThinkTag = InitSession.pastThinkTag
    /\ isFinished = InitSession.isFinished
    /\ out = InitSession.out
    /\ lines = InitSession.lines
    /\ flushes = 0
    /\ decoded = <<>>
    /\ cutInChar = FALSE
    /\ startInMarker = FALSE

Init == Start(Inputs)

Install(s) ==
    /\ buffer' = s.buffer
    /\ pastThinkTag' = s.pastThinkTag
    /\ isFinished' = s.isFinished
    /\ out' = s.out
    /\ lines' = s.lines

\* Sizes of the next chunk when rem bytes remain: up to MaxChunk bytes (none
\* included), or all that remain
ChunkSizes(rem) == {n \in 0..MaxChunk : n <= rem} \cup {rem}

\* The stream hands transform the next chunk.  No chunk arrives once the
\* stream is closed.
Transform ==
    /\ flushes = 0
    /\ \E n \in ChunkSizes(Len(input) - pos) :
          LET chunk == SubSeq(input, pos + 1, pos + n)
          IN  /\ Install(IF mode = "chat" THEN ChatTransform(Session, chunk)
                         ELSE CompletionTransform(Session, chunk))
              /\ decoded' = IF mode = "chat" /\ isFinished THEN decoded
                            ELSE decoded \o Decode(chunk)
              /\ pos' = pos + n
              /\ cutInChar' = (cutInChar \/ InsideChar(input, pos + n))
              /\ startInMarker' = InsideMarker(input, pos)
    /\ UNCHANGED <<mode, input, flushes, request, handler, env, router>>

\* Upstream has delivered all its bytes and closes: flush is invoked.  The
\* stream runtime invokes it once; the callback itself can be invoked again,
\* up to MaxFlush times, which is what idempotence of flush is about.
Flush ==
    /\ pos = Len(input)
    /\ flushes < MaxFlush
    /\ Install(IF mode = "chat" THEN ChatFlush(Session) ELSE CompletionFlush(Session))
    /\ flushes' = flushes + 1
    /\ UNCHANGED <<mode, input, pos, decoded, cutInChar, startInMarker, request, handler,
                   env, router>>

Next == Transform \/ Flush

Spec == Init /\ [][Next]_vars

\* Sessions of createChatStreamTransformer only
InitChat == Init /\ mode = "chat"

SpecChat == InitChat /\ [][Next]_vars

\* Sessions of createCompletionStreamTransformer only
InitCompletion == Init /\ mode = "completion"

SpecCompletion == InitCompletion /\ [][Next]_vars

\* Sessions whose upstream text may hold U+FEFF
InitWide == Start(WideInputs)

SpecWide == InitWide /\ [][Next]_vars

\* Chat sessions whose upstream sends object responses
InitObject == Start(ObjectInputs) /\ mode = "chat"

SpecObject == InitObject /\ [][Next]_vars

\* Sessions of both factories whose upstream sends bodies without text
InitFalsy == Start(FalsyInputs)

SpecFalsy == InitFalsy /\ [][Next]_vars

\* Completion sessions whose upstream sends responses of every type
InitVerbatim == Start(VerbatimInputs) /\ mode = "completion"

SpecVerbatim == InitVerbatim /\ [][Next]_vars

\* completionHandler up to await request.json(): the Content-Type check
HandlerEntry ==
    /\ handler.pc = "entry"
    /\ handler' = IF ~IncludesApplicationJson(request.contentType)
                  THEN Throw(handler, "ValidationError")
                  ELSE [handler EXCEPT !.pc = "json"]
    /\ UNCHANGED <<request, env, router, mode, input, pos, buffer, pastThinkTag,
                   isFinished, out, flushes, lines, decoded, cutInChar, startInMarker>>

\* completionHandler from the end of request.json() to await env.AI.run: the
\* body is parsed or request.json() rejects; the prompt checks; in the
\* streaming branch the transformer is created; env.AI.run is called
HandlerBody ==
    /\ handler.pc = "json"
    /\ handler' = IF ~request.body.valid THEN Throw(handler, "SyntaxError")
                  ELSE IF PromptRejected(request.body.json)
                  THEN Throw(handler, "ValidationError")
                  ELSE [handler EXCEPT
                           !.pc = "run",
                           !.transformer = ~Falsy(Member(request.body.json, "stream")),
                           !.aiRun = TRUE]
    /\ UNCHANGED <<request, env, router, mode, input, pos, buffer, pastThinkTag,
                   isFinished, out, flushes, lines, decoded, cutInChar, startInMarker>>

\* completionHandler after await env.AI.run: the call rejects, or the handler
\* returns the piped stream or the JSON response
HandlerRun ==
    /\ handler.pc = "run"
    /\ \E resolved \in BOOLEAN :
          handler' = IF ~resolved THEN Throw(handler, "Error")
                     ELSE [handler EXCEPT
                              !.pc = "done",
                              !.response = IF handler.transformer THEN "text/event-stream"
                                           ELSE "application/json"]
    /\ UNCHANGED <<request, env, router, mode, input, pos, buffer, pastThinkTag,
                   isFinished, out, flushes, lines, decoded, cutInChar, startInMarker>>

NextHandler == HandlerEntry \/ HandlerBody \/ HandlerRun

\* A request arrives at completionHandler; no stream exists yet
InitHandler ==
    /\ env = [ACCESS_TOKEN |-> Str(token)]
    /\ router = RouterPassed
    /\ request \in Requests
    /\ handler = HandlerEntered
    /\ mode = "completion"
    /\ input = <<>>
    /\ pos = 0
    /\ buffer = InitSession.buffer
    /\ pastThinkTag = InitSession.pastThinkTag
    /\ isFinished = InitSession.isFinished
    /\ out = InitSession.out
    /\ lines = InitSession.lines
    /\ flushes = 0
    /\ decoded = <<>>
    /\ cutInChar = FALSE
    /\ startInMarker = FALSE

SpecHandler == InitHandler /\ [][NextHandler]_vars

\* router: .all('*', handleCORS)
CORS ==
    /\ router.pc = "cors"
    /\ router' = handleCORS(router, request)
    /\ UNCHANGED <<request, env, handler, mode, input, pos, buffer, pastThinkTag,
                   isFinished, out, flushes, lines, decoded, cutInChar, startInMarker>>

\* router: .all('*', bearerAuthentication)
Authenticate ==
    /\ router.pc = "auth"
    /\ router' = bearerAuthentication(router, request, env)
    /\ UNCHANGED <<request, env, handler, mode, input, pos, buffer, pastThinkTag,
                   isFinished, out, flushes, lines, decoded, cutInChar, startInMarker>>

\* router: the route handler that matches, or the 404 handler, is invoked
Route ==
    /\ router.pc = "route"
    /\ router' = [router EXCEPT !.pc = "done", !.invoked = TRUE, !.response = "handler"]
    /\ UNCHANGED <<request, env, handler, mode, input, pos, buffer, pastThinkTag,
                   isFinished, out, flushes, lines, decoded, cutInChar, startInMarker>>

NextRouter == CORS \/ Authenticate \/ Route

\* A request under /v1 arrives at router.fetch; no handler has run
InitRouter ==
    /\ request \in RouterRequests
    /\ env \in Envs
    /\ router = RouterEntered
    /\ handler = HandlerEntered
    /\ mode = "completion"
    /\ input = <<>>
    /\ pos = 0
    /\ buffer = InitSession.buffer
    /\ pastThinkTag = InitSession.pastThinkTag
    /\ isFinished = InitSession.isFinished
    /\ out = InitSession.out
    /\ lines = InitSession.lines
    /\ flushes = 0
    /\ decoded = <<>>
    /\ cutInChar = FALSE
    /\ startInMarker = FALSE

SpecRouter == InitRouter /\ [][NextRouter]_vars

\* completionHandler builds aiParams.max_tokens
CompletionParams ==
    /\ handler.pc = "entry"
    /\ request.route = "completion"
    /\ handler' = [pc |-> "run",
                   max_tokens |-> CompletionMaxTokens(request.max_tokens, request.window)]
    /\ UNCHANGED <<request, env, router, mode, input, pos, buffer, pastThinkTag,
                   isFinished, out, flushes, lines, decoded, cutInChar, startInMarker>>

\* chatHandler builds aiParams.max_tokens
ChatParams ==
    /\ handler.pc = "entry"
    /\ request.route = "chat"
    /\ handler' = [pc |-> "run",
                   max_tokens |-> FinalMaxTokens(ChatMaxTokens(request.max_tokens,
                                                               request.window),
                                                 request.window)]
    /\ UNCHANGED <<request, env, router, mode, input, pos, buffer, pastThinkTag,
                   isFinished, out, flushes, lines, decoded, cutInChar, startInMarker>>

NextParams == CompletionParams \/ ChatParams

\* A request has passed the checks of its handler; no parameter is built yet
InitParams ==
    /\ request \in TokenRequests
    /\ handler = [pc |-> "entry", max_tokens |-> undefined]
    /\ env = [ACCESS_TOKEN |-> Str(token)]
    /\ router = RouterPassed
    /\ mode = request.route
    /\ input = <<>>
    /\ pos = 0
    /\ buffer = InitSession.buffer
    /\ pastThinkTag = InitSession.pastThinkTag
    /\ isFinished = InitSession.isFinished
    /\ out = InitSession.out
    /\ lines = InitSession.lines
    /\ flushes = 0
    /\ decoded = <<>>
    /\ cutInChar = FALSE
    /\ startInMarker = FALSE

SpecParams == InitParams /\ [][NextParams]_vars

----------------------------------------------------------------------------
(* Properties                                                              *)

Count(seq, P(_)) == Cardinality({i \in DOMAIN seq : P(seq[i])})

\* The bytes delivered so far
Delivered == SubSeq(input, 1, pos)

\* C1: in chat mode, once every chunk has been fed and flush has run once, the
\* output holds exactly one terminating frame and exactly one sentinel frame,
\* and they are its last two frames, the sentinel last; whether the sentinel
\* line came from upstream or not.
C1_ExactlyOneTermination ==
    (mode = "chat" /\ flushes = 1) =>
        /\ Count(out, IsFinalChunk) = 1
        /\ Count(out, IsDoneFrame) = 1
        /\ Len(out) >= 2
        /\ out[Len(out) - 1] = finalChunk
        /\ out[Len(out)] = doneFrame

\* C1 witness: upstream closed without a sentinel line after a fragment, and
\* the one flush ended the output
C1_Witness ==
    /\ mode = "chat" /\ flushes = 1 /\ ~isFinished
    /\ Len(out) = 3 /\ IsFragmentFrame(out[1])

\* C2: a flush that follows an earlier flush of the same chat session adds
\* nothing to the output.
C2_FlushIdempotent ==
    [][(mode = "chat" /\ flushes >= 1 /\ flushes' = flushes + 1) => out' = out]_vars

\* C3: in completion mode the output never holds more than one sentinel frame.
C3_AtMostOneSentinel ==
    mode = "completion" => Count(out, IsDoneFrame) <= 1

\* C4: in completion mode no frame follows the sentinel frame.
C4_NothingAfterSentinel ==
    mode = "completion" =>
        \A i \in DOMAIN out : IsDoneFrame(out[i]) => i = Len(out)

\* The text the decoder has returned after the first closing marker
AfterMarker(text) == Substring(text, IndexOf(text, thinkTagEnd) + Len(thinkTagEnd))

\* The text a fragment frame carries (every fragment line of Inputs has a
\* string response, so every fragment frame has one)
FrameText(f) ==
    IF "delta" \in DOMAIN f.choices[1] THEN f.choices[1].delta.content
    ELSE f.choices[1].text.v

\* The event line that carries fragment c
FragmentLine(c) == dataPrefix \o responseOpen \o c \o responseClose \o <<newline>>

\* C5: in both modes, while pastThinkTag is false no line has been extracted
\* and no fragment frame emitted; once it is true, the lines extracted plus the
\* buffer are exactly the decoded text that lies strictly after the first
\* closing marker, and every fragment frame carries the fragment of one of
\* those lines.
C5_PreambleExcluded ==
    /\ ~pastThinkTag => (lines = <<>> /\ Count(out, IsFragmentFrame) = 0)
    /\ pastThinkTag =>
          /\ IndexOf(decoded, thinkTagEnd) # -1
          /\ Concat(lines) \o buffer = AfterMarker(decoded)
    /\ \A i \in DOMAIN out :
          IsFragmentFrame(out[i]) =>
              \E k \in DOMAIN lines : lines[k] = FragmentLine(FrameText(out[i]))

\* C5 witness: a fragment line stood before the marker and another after it;
\* only the later one has been framed
C5_Witness ==
    /\ StartsWith(input, segHi \o segMarker \o segAccent)
    /\ pastThinkTag
    /\ Len(out) = 1 /\ FrameText(out[1]) = <<"U+00E9">>

\* C6: in chat mode, after a chunk that began inside the first closing marker
\* and reached its end, the preamble is closed and buffer, frames and flags are
\* those of a session that got all the bytes delivered so far as one chunk.
C6_SplitMarkerDetected ==
    (mode = "chat" /\ flushes = 0 /\ startInMarker
        /\ pos >= IndexOf(input, thinkTagEnd) + Len(thinkTagEnd)) =>
        /\ pastThinkTag
        /\ Session = ChatTransform(InitSession, Delivered)

\* C6 witness: the marker arrived split, then a fragment line and the sentinel
\* line in the same chunk: one fragment frame, the terminating frame, the
\* sentinel frame
C6_Witness ==
    /\ mode = "chat" /\ flushes = 0 /\ startInMarker
    /\ pos >= IndexOf(input, thinkTagEnd) + Len(thinkTagEnd)
    /\ Len(out) = 3 /\ IsFragmentFrame(out[1])
    /\ out[2] = finalChunk /\ out[3] = doneFrame

\* C7: in chat mode, when no chunk boundary fell inside a multi-byte character,
\* the output after all chunks and one flush equals the output of feeding the
\* whole input as one chunk and flushing.
C7_ChatChunkInvariance ==
    (mode = "chat" /\ flushes = 1 /\ ~cutInChar) =>
        out = ChatFlush(ChatTransform(InitSession, input)).out

\* C8: in completion mode, the output after all chunks equals the output of
\* feeding the whole input as one chunk.
C8_CompletionChunkInvariance ==
    (mode = "completion" /\ pos = Len(input)) =>
        out = CompletionTransform(InitSession, input).out

\* C9: in both modes, when a chunk boundary fell inside a multi-byte character
\* no substitution character is decoded, and once the delivered bytes end on a
\* character boundary the text decoded chunk by chunk equals the decoding of
\* the delivered bytes as a whole.
C9_DecoderCarryOver ==
    (cutInChar /\ ~isFinished) =>
        /\ \A i \in DOMAIN decoded : decoded[i] # "U+FFFD"
        /\ ~InsideChar(input, pos) => decoded = Decode(Delivered)

\* The line is the upstream sentinel line
IsSentinelLine(line) ==
    StartsWith(line, dataPrefix) /\ Trim(Substring(line, Len(dataPrefix))) = doneLiteral

\* The line lacks the event prefix, or its body is not JSON
IsBadLine(line) ==
    \/ ~StartsWith(line, dataPrefix)
    \/ ~IsSentinelLine(line) /\ ~JSONParse(Substring(line, Len(dataPrefix))).ok

\* The frames one extracted line stands for in mode m
FramesOfLine(m, line) ==
    IF IsBadLine(line) THEN <<>>
    ELSE IF IsSentinelLine(line)
    THEN (IF m = "chat" THEN <<finalChunk, doneFrame>> ELSE <<doneFrame>>)
    ELSE LET data == JSONParse(Substring(line, Len(dataPrefix)))
         IN  IF m = "chat"
             THEN (IF Truthy(data) THEN <<ChatChunk(ActualContent(data))>> ELSE <<>>)
             ELSE <<CompletionChunk(data)>>

RECURSIVE FramesOfLines(_, _)
FramesOfLines(m, ls) ==
    IF ls = <<>> THEN <<>> ELSE FramesOfLine(m, Head(ls)) \o FramesOfLines(m, Tail(ls))

\* C10: in both modes, once the preamble is closed the frames emitted by
\* transform are those of the extracted lines that are well formed, in order:
\* a line without the prefix or with a body that is not JSON adds no frame;
\* the session is finished only by a sentinel line; unless the last extracted
\* line is a sentinel line no complete line stays in the buffer and no text
\* after the marker is lost; and a chat session that was not finished ends,
\* on flush, with the terminating frame and the sentinel frame.
C10_ParseErrorResilience ==
    pastThinkTag =>
        /\ flushes = 0 => out = FramesOfLines(mode, lines)
        /\ isFinished => (lines # <<>> /\ IsSentinelLine(lines[Len(lines)]))
        /\ (lines = <<>> \/ ~IsSentinelLine(lines[Len(lines)])) =>
              IndexOf(buffer, <<newline>>) = -1
        /\ Concat(lines) \o buffer = AfterMarker(decoded)
        /\ (mode = "chat" /\ flushes = 1) =>
              out = FramesOfLines(mode, lines)
                      \o (IF isFinished THEN <<>> ELSE <<finalChunk, doneFrame>>)

\* C10 witness: a line whose body is not JSON was followed by a fragment line;
\* the fragment was framed and the flush ended the stream
C10_Witness ==
    /\ mode = "chat" /\ flushes = 1
    /\ lines = <<segBadJson, segHi>>
    /\ out = <<ChatChunk(<<"H", "i">>), finalChunk, doneFrame>>

\* The fragment of an event line of the form data: {"response":"<fragment>"}
LineFragment(line) ==
    SubSeq(line, Len(dataPrefix) + Len(responseOpen) + 1,
           Len(line) - Len(responseClose) - 1)

\* The line is a valid data line with a string fragment that is not empty
IsFragmentLine(line) ==
    /\ Len(line) > Len(FragmentLine(<<>>))
    /\ line = FragmentLine(LineFragment(line))
    /\ \A i \in DOMAIN LineFragment(line) : LineFragment(line)[i] \notin StringBreak

\* The fragments of the valid data lines among ls, in the order of the lines
RECURSIVE Fragments(_)
Fragments(ls) ==
    IF ls = <<>> THEN <<>>
    ELSE (IF IsFragmentLine(Head(ls)) THEN <<LineFragment(Head(ls))>> ELSE <<>>)
            \o Fragments(Tail(ls))

\* The contents of the fragment frames among fs, in the order of the frames
RECURSIVE FrameTexts(_)
FrameTexts(fs) ==
    IF fs = <<>> THEN <<>>
    ELSE (IF IsFragmentFrame(Head(fs)) THEN <<FrameText(Head(fs))>> ELSE <<>>)
            \o FrameTexts(Tail(fs))

\* C11: in chat mode the contents of the fragment frames in the output are
\* the fragments of the valid data lines extracted after the preamble, one
\* frame per line, in the order of the lines, each its own line's fragment.
C11_FragmentOrder ==
    mode = "chat" => FrameTexts(out) = Fragments(lines)

\* C11 witness: two fragment lines with different fragments were extracted
\* one after the other and framed in that order
C11_Witness ==
    /\ mode = "chat"
    /\ lines = <<segHi, FragmentLine(<<"U+00E9">>)>>
    /\ FrameTexts(out) = <<(<<"H", "i">>), (<<"U+00E9">>)>>

\* C12: in chat mode, when the input never holds the closing marker, the
\* output after all chunks and one flush is exactly the terminating frame
\* followed by the sentinel frame, whatever lines the input held.
C12_DegenerateSession ==
    (mode = "chat" /\ flushes = 1 /\ IndexOf(input, thinkTagEnd) = -1) =>
        out = <<finalChunk, doneFrame>>

\* C12 witness: the input was a fragment line and the sentinel line with no
\* marker; only the flush produced frames
C12_Witness ==
    /\ mode = "chat" /\ flushes = 1
    /\ input = segHi \o segDone
    /\ ~pastThinkTag /\ ~isFinished
    /\ out = <<finalChunk, doneFrame>>

\* C13: in completion mode no terminating frame is ever emitted, every
\* sentinel frame in the output stands for one extracted sentinel line, and
\* flush adds nothing: a session whose lines hold no sentinel line has no
\* sentinel frame, also after end of input.
C13_CompletionAsymmetry ==
    mode = "completion" =>
        /\ Count(out, IsFinalChunk) = 0
        /\ Count(out, IsDoneFrame) = Count(lines, IsSentinelLine)

\* C13 witness: a completion session got one fragment line and no sentinel
\* line; after end of input the output is the fragment frame alone
C13_Witness ==
    /\ mode = "completion" /\ flushes = 1
    /\ lines = <<segHi>>
    /\ Len(out) = 1 /\ IsFragmentFrame(out[1])

\* The object tag of the frames of mode m
ObjectTag(m) == IF m = "chat" THEN "chat.completion.chunk" ELSE "text_completion"

\* C14: in both modes every frame in the output other than the sentinel frame
\* carries the id, the created timestamp and the model name the transformer
\* was created with, and the object tag of the session's mode.
C14_StableIdentity ==
    \A i \in DOMAIN out :
        ~IsDoneFrame(out[i]) =>
            /\ out[i].id = uuid
            /\ out[i].created = created
            /\ out[i].model = model
            /\ out[i].object = ObjectTag(mode)

\* C14 witness: a chat session framed a fragment and then, on the sentinel
\* line, the terminating frame; both frames carry the session's values
C14_Witness ==
    /\ mode = "chat" /\ isFinished /\ flushes = 0
    /\ Len(out) = 3
    /\ IsFragmentFrame(out[1]) /\ FrameText(out[1]) = <<"U+00E9">>
    /\ IsFinalChunk(out[2])
    /\ out[1].id = out[2].id /\ out[1].created = out[2].created

\* The media type of a Content-Type value: the text before its parameters
MediaType(contentType) ==
    LET semi == IndexOf(contentType.v, <<";">>)
    IN  IF semi = -1 THEN contentType.v ELSE Slice(contentType.v, 0, semi)

\* The request is one the handler is to refuse: its Content-Type is not
\* application/json, or its body is JSON whose prompt is missing, empty or
\* not a string
InvalidRequest ==
    \/ request.contentType.t # "string"
    \/ MediaType(request.contentType) # appJson
    \/ /\ request.body.valid
       /\ LET prompt == Member(request.body.json, "prompt")
          IN  prompt.t # "string" \/ prompt.v = <<>>

\* C15: for a request whose Content-Type is not application/json or whose
\* prompt is missing, empty or not a string, completionHandler never creates
\* the transformer, never calls env.AI.run and never returns an event stream,
\* and it ends by raising a validation error.
C15_NoStreamForInvalid ==
    InvalidRequest =>
        /\ ~handler.transformer
        /\ ~handler.aiRun
        /\ handler.response # "text/event-stream"
        /\ handler.pc = "done" => handler.raised = "ValidationError"

\* C16: in chat mode, once isFinished is true no later step, transform or
\* flush, adds a frame or changes buffer, pastThinkTag or isFinished.
C16_FinishedIsFinal ==
    [][(mode = "chat" /\ isFinished) =>
          /\ out' = out
          /\ buffer' = buffer
          /\ pastThinkTag' = pastThinkTag
          /\ isFinished' = isFinished]_vars

\* C16 witness: the sentinel line ended the session, a fragment line arrived
\* in a later chunk and was ignored, and flush added nothing
C16_Witness ==
    /\ mode = "chat" /\ isFinished /\ flushes = 1
    /\ input = segMarker \o segDone \o segHi
    /\ pos = Len(input)
    /\ decoded = segMarker \o segDone
    /\ buffer = <<>>
    /\ out = <<finalChunk, doneFrame>>

\* A sentinel line has been extracted: the session is finished (in chat mode
\* this is isFinished; the completion transformer keeps no such flag)
SentinelSeen == \E k \in DOMAIN lines : IsSentinelLine(lines[k])

\* C17: in both modes, after a transform call with the preamble closed and
\* the session not finished the buffer holds no newline; every extracted line
\* ends with its only newline, and the extracted lines followed by the buffer
\* are the decoded text after the marker, so each complete line was taken
\* once, in arrival order.
C17_NoCompleteLineLeft ==
    /\ (pastThinkTag /\ ~SentinelSeen) => IndexOf(buffer, <<newline>>) = -1
    /\ mode = "chat" => (isFinished <=> SentinelSeen)
    /\ \A k \in DOMAIN lines : IndexOf(lines[k], <<newline>>) = Len(lines[k]) - 1
    /\ pastThinkTag => Concat(lines) \o buffer = AfterMarker(decoded)

\* C17 witness: a completion session extracted one line and keeps the
\* beginning of the next, which has no newline yet
C17_Witness ==
    /\ mode = "completion" /\ pastThinkTag /\ ~SentinelSeen
    /\ lines = <<segNoPrefix>>
    /\ buffer = <<"d", "a", "t">>

Max(S) == CHOOSE x \in S : \A y \in S : y <= x

\* The longest line of text that no newline ends yet cannot be longer than
\* the longest line; a partial closing marker is shorter than the marker
PendingBound(text) ==
    LET cuts == {0, Len(text)} \cup {i \in 1..Len(text) : text[i] = newline}
        gaps == {x[2] - x[1] : x \in {y \in cuts \X cuts :
                                         /\ y[1] < y[2]
                                         /\ \A m \in cuts : ~(y[1] < m /\ m < y[2])}}
    IN  Max({Len(thinkTagEnd)} \cup gaps)

\* C18: in chat mode, while the session is not finished, the buffer is never
\* longer than the longest line decoded so far or the closing marker; so it
\* does not grow with the number of lines of the preamble.
C18_BufferBounded ==
    (mode = "chat" /\ ~isFinished) => Len(buffer) <= PendingBound(decoded)

\* C19: in both modes pastThinkTag starts false and, once true, stays true;
\* and a step taken with pastThinkTag true discards nothing: the extracted
\* lines followed by the buffer grow by exactly the text decoded in the step,
\* a later </think> included.
C19_OneWayFlag ==
    /\ ~pastThinkTag
    /\ [][pastThinkTag =>
             /\ pastThinkTag'
             /\ Concat(lines') \o buffer'
                   = Concat(lines) \o buffer \o Substring(decoded', Len(decoded))]_vars

\* C19 witness: a second </think> arrived after a fragment line that followed
\* the first; it is kept in the buffer as ordinary text
C19_Witness ==
    /\ input = segMarker \o segHi \o segMarker
    /\ pos = Len(input)
    /\ pastThinkTag
    /\ lines = <<segHi>>
    /\ buffer = thinkTagEnd

\* The member of the object is present and not empty
Present(object, key) ==
    \E k \in DOMAIN object.members :
        object.members[k].key = key /\ object.members[k].val # <<>>

\* The delta.content the fallback chain gives for a parsed body
ChainContent(data) ==
    IF data.type = "string" THEN data.response
    ELSE IF Present(data.response, "text") THEN Get(data.response, "text")
    ELSE IF Present(data.response, "content") THEN Get(data.response, "content")
    ELSE <<"{">> \o StringifyMembers(data.response.members) \o <<"}">>

\* The contents the fallback chain gives for the lines among ls whose body
\* parses with a response that is an object or a string that is not empty
RECURSIVE ChainContents(_)
ChainContents(ls) ==
    IF ls = <<>> THEN <<>>
    ELSE LET line == Head(ls)
             data == JSONParse(Substring(line, Len(dataPrefix)))
         IN  (IF /\ StartsWith(line, dataPrefix) /\ ~IsSentinelLine(line)
                 /\ data.ok /\ data.hasResponse
                 /\ (data.type = "string" => data.response # <<>>)
              THEN <<ChainContent(data)>> ELSE <<>>)
                \o ChainContents(Tail(ls))

\* C20: in chat mode the fragment frames carry, line by line, the content of
\* the fallback chain: the response itself when it is a string; for an object
\* its text member when present and not empty, else its content member when
\* present and not empty, else the stringified object; and every fragment
\* frame has role "assistant" and finish_reason null.
C20_FallbackChain ==
    mode = "chat" =>
        /\ FrameTexts(out) = ChainContents(lines)
        /\ \A i \in DOMAIN out :
              IsFragmentFrame(out[i]) =>
                  /\ out[i].choices[1].delta.role = "assistant"
                  /\ out[i].choices[1].finish_reason = "null"
                  /\ out[i].choices[1].index = 0

\* C20 witness: an object with an empty text and a content, then one with
\* neither a text nor a content that is not empty: the frames carry the
\* content of the first and the stringified second object
C20_Witness ==
    /\ mode = "chat"
    /\ lines = <<segContent, segNeither>>
    /\ FrameTexts(out) = <<(<<"C">>), <<"{">> \o emptyContentAndId \o <<"}">>>>

\* The body of an event line, parsed
LineData(line) == JSONParse(Substring(line, Len(dataPrefix)))

\* The line is a data line, not the sentinel line, whose body parses as JSON
ParsesAsJson(line) ==
    StartsWith(line, dataPrefix) /\ ~IsSentinelLine(line) /\ LineData(line).ok

\* The line is a data line whose body is a JSON object
ParsesAsObject(line) == ParsesAsJson(line) /\ LineData(line).body = "object"

\* The line is a data line whose body is an object with a response that is a
\* string that is not empty, or an object
HasTextResponse(line) ==
    /\ ParsesAsObject(line)
    /\ LineData(line).hasResponse
    /\ \/ LineData(line).type = "object"
       \/ LineData(line).type = "string" /\ LineData(line).response # <<>>

\* C21 as stated: in both modes, as long as no sentinel line has been
\* extracted, there are as many fragment frames as extracted data lines whose
\* body parses as JSON, whatever their response member.
C21_OneFramePerParsedLine ==
    ~SentinelSeen => Count(out, IsFragmentFrame) = Count(lines, ParsesAsJson)

\* C21 amended: as long as no sentinel line has been extracted, a completion
\* session has as many fragment frames as extracted data lines whose body is
\* a JSON object, whatever their response member (the body null gives none);
\* a chat session has as many as extracted data lines whose response is a
\* string that is not empty or an object (an empty string, 0, null or a
\* missing response gives none).
C21_FramesByMode ==
    ~SentinelSeen =>
        /\ mode = "completion" => Count(out, IsFragmentFrame) = Count(lines, ParsesAsObject)
        /\ mode = "chat" => Count(out, IsFragmentFrame) = Count(lines, HasTextResponse)

\* C21 witness: a chat session extracted a line with an empty response, a
\* fragment line and a line with response 0, and framed the fragment only
C21_Witness ==
    /\ mode = "chat"
    /\ lines = <<segEmpty, segHi, segZero>>
    /\ out = <<ChatChunk(<<"H", "i">>)>>

\* JSON.stringify of a value of a frame
JsonText(value) ==
    IF value.t = "string" THEN <<"\"">> \o value.v \o <<"\"">>
    ELSE IF value.t = "null" THEN nullLiteral
    ELSE IF value.t = "number" THEN zeroLiteral
    ELSE JSONStringify(value.v)

\* The text of the response member as the line of the form
\* data: {"response":<value>} has it
RawResponse(line) ==
    SubSeq(line, Len(dataPrefix) + Len(responseKey) + 1, Len(line) - 2)

\* C22: in completion mode, for lines whose body is an object with a response
\* member, the frames are one per line, in order, with object
\* "text_completion", logprobs null, finish_reason null, and a text that is
\* the member's value of the same type: serialised, it is the text the line
\* had for it.
C22_CompletionVerbatim ==
    (mode = "completion" /\ \A k \in DOMAIN lines : LineData(lines[k]).hasResponse) =>
        /\ Len(out) = Len(lines)
        /\ \A i \in DOMAIN out :
              /\ out[i].object = "text_completion"
              /\ out[i].choices[1].logprobs = "null"
              /\ out[i].choices[1].finish_reason = "null"
              /\ out[i].choices[1].text.t = LineData(lines[i]).type
              /\ JsonText(out[i].choices[1].text) = RawResponse(lines[i])

\* C22 witness: an object response and the response 0 were framed as an
\* object and as the number 0
C22_Witness ==
    /\ mode = "completion"
    /\ lines = <<segText, segZero>>
    /\ Len(out) = 2
    /\ JsonText(out[1].choices[1].text) = <<"{">> \o textAndContent \o <<"}">>
    /\ out[2].choices[1].text = [t |-> "number", v |-> 0]

\* The Authorization header is exactly "Bearer <token>" with <token> the
\* configured env.ACCESS_TOKEN
ExactBearer ==
    /\ env.ACCESS_TOKEN.t = "string"
    /\ request.authorization = Str(bearer \o <<space>> \o env.ACCESS_TOKEN.v)

PositiveMaxTokens == request.max_tokens.t = "number" /\ request.max_tokens.v > 0

\* v is a number between lo and hi, inclusive
Within(v, lo, hi) == v.t = "number" /\ lo <= v.v /\ v.v <= hi

\* C24: the completion handler passes a max_tokens greater than 0 as a number
\* between 1 and the context window of the model, 4096 when the model has
\* none; the chat handler passes a number that is at least 10 and, when the
\* request supplied a number greater than 0, at most the larger of 10 and the
\* context window.
C24_MaxTokensWithinBounds ==
    handler.pc = "run" =>
        /\ (request.route = "completion" /\ PositiveMaxTokens) =>
              Within(handler.max_tokens, 1,
                     IF request.window.t = "number" THEN request.window.v ELSE 4096)
        /\ request.route = "chat" =>
              /\ handler.max_tokens.t = "number" /\ handler.max_tokens.v >= 10
              /\ (PositiveMaxTokens /\ request.window.t = "number") =>
                    handler.max_tokens.v <= Max({10, request.window.v})

\* The text the current transform call decoded from its chunk
CallText == SubSeq(decoded', Len(decoded) + 1, Len(decoded'))

\* The lines the current call took out of the buffer, one per loop iteration
CallLines == SubSeq(lines', Len(lines) + 1, Len(lines'))

\* The number of newline characters in text
Newlines(text) == Count(text, LAMBDA c : c = newline)

\* C25: a transform call ends after finitely many loop iterations: every
\* iteration takes a line of at least one character, ending in a newline, out
\* of the buffer, so what was taken and what is left is no longer than the
\* buffer with the text of the chunk, the iterations are at most the newlines
\* in that text, and the call returns with no newline left in the buffer
\* unless it returned at the sentinel line or the session had finished.
C25_LoopTerminates ==
    [][/\ Len(lines') >= Len(lines)
       /\ \A k \in DOMAIN CallLines :
             /\ Len(CallLines[k]) >= 1
             /\ CallLines[k][Len(CallLines[k])] = newline
       /\ Len(Concat(CallLines)) + Len(buffer') <= Len(buffer) + Len(CallText)
       /\ Len(CallLines) <= Newlines(buffer \o CallText)
       /\ (pos' # pos /\ pastThinkTag') =>
             \/ IndexOf(buffer', <<newline>>) = -1
             \/ isFinished
             \/ CallLines # <<>> /\ IsSentinelLine(CallLines[Len(CallLines)])]_vars

\* C25 witness: the chunk of the last call began inside the marker, so the
\* loop had not run before, and that call took two lines out of the buffer in
\* two iterations and left it empty
C25_Witness ==
    /\ startInMarker
    /\ Len(lines) = 2
    /\ buffer = <<>>
    /\ ~SentinelSeen

====
